---- MODULE Spec2Model ----
(***************************************************************************)
(* A model of scripts/posts.py: the mapping resolution engine (path        *)
(* resolver, transform registry, field extractor, case dispatcher, item    *)
(* processor, post-processors) and the pipeline of main().                 *)
(*                                                                         *)
(* JSON values are tagged records.  A string is a sequence of characters,  *)
(* a character a one-symbol TLA+ string; a mapping is the sequence of its  *)
(* (key, value) pairs in insertion order, as a Python dict keeps them.     *)
(* While an item is being processed its mappings live in an object store   *)
(* (heap) and are named by reference, so that two names of one dict are    *)
(* one dict, as in Python.                                                 *)
(***************************************************************************)
EXTENDS Integers, Sequences, FiniteSets, TLC

VARIABLES pc, obj, path, values, mapping, data, args, processed, heap, exc

vars == <<pc, obj, path, values, mapping, data, args, processed, heap, exc>>

---------------------------------------------------------------------------
(* Bounds of the model *)
MaxNum == 1
MaxLen == 2
MaxPosts == 2

---------------------------------------------------------------------------
(* JSON values *)
Null == [t |-> "null"]
Num(n) == [t |-> "num", v |-> n]
Str(s) == [t |-> "str", v |-> s]
List(xs) == [t |-> "list", v |-> xs]
Dict(ps) == [t |-> "dict", v |-> ps]
Ref(a) == [t |-> "ref", v |-> a]
Pair(k, x) == [k |-> k, x |-> x]

(* dict operations on a sequence of pairs *)
Keys(ps) == {ps[i].k : i \in 1..Len(ps)}
HasKey(ps, k) == \E i \in 1..Len(ps) : ps[i].k = k
GetKey(ps, k) == ps[CHOOSE i \in 1..Len(ps) : ps[i].k = k].x
PutKey(ps, k, x) ==
  IF HasKey(ps, k)
  THEN [i \in 1..Len(ps) |-> IF ps[i].k = k THEN Pair(k, x) ELSE ps[i]]
  ELSE Append(ps, Pair(k, x))

(* str.split(sep) for a one-character separator *)
RECURSIVE Split(_, _)
Split(s, c) ==
  IF \A i \in 1..Len(s) : s[i] # c
  THEN <<s>>
  ELSE LET i == CHOOSE n \in 1..Len(s) : s[n] = c /\ \A j \in 1..(n-1) : s[j] # c
       IN <<SubSeq(s, 1, i-1)>> \o Split(SubSeq(s, i+1, Len(s)), c)

EndsWithSpread(part) ==
  Len(part) >= 2 /\ part[Len(part)-1] = "[" /\ part[Len(part)] = "]"

(* json.load: the parsed document, its mappings allocated in the store *)
RECURSIVE Store(_, _), StoreSeq(_, _), StorePairs(_, _)
Store(h, t) ==
  CASE t.t = "list" ->
         LET made(r) == [h |-> r.h, x |-> List(r.x)] IN made(StoreSeq(h, t.v))
    [] t.t = "dict" ->
         LET made(r) == [h |-> Append(r.h, r.x), x |-> Ref(Len(r.h) + 1)]
         IN made(StorePairs(h, t.v))
    [] OTHER -> [h |-> h, x |-> t]
StoreSeq(h, xs) ==
  IF xs = <<>> THEN [h |-> h, x |-> <<>>]
  ELSE LET rest(a) == LET made(b) == [h |-> b.h, x |-> <<a.x>> \o b.x]
                      IN made(StoreSeq(a.h, Tail(xs)))
       IN rest(Store(h, Head(xs)))
StorePairs(h, ps) ==
  IF ps = <<>> THEN [h |-> h, x |-> <<>>]
  ELSE LET rest(a) == LET made(b) == [h |-> b.h, x |-> <<Pair(Head(ps).k, a.x)>> \o b.x]
                      IN made(StorePairs(a.h, Tail(ps)))
       IN rest(Store(h, Head(ps).x))

(* the dicts a stored value names, directly or through lists *)
RECURSIVE RefsIn(_)
RefsIn(x) ==
  CASE x.t = "ref" -> {x.v}
    [] x.t = "list" -> UNION {RefsIn(x.v[i]) : i \in 1..Len(x.v)}
    [] x.t = "dict" -> UNION {RefsIn(x.v[i].x) : i \in 1..Len(x.v)}
    [] OTHER -> {}
Succ(h, S) == UNION {RefsIn(Dict(h[a])) : a \in S}
RECURSIVE Closure(_, _, _)
Closure(h, S, n) ==
  IF n = 0 \/ Succ(h, S) \subseteq S THEN S ELSE Closure(h, S \cup Succ(h, S), n - 1)
Reachable(h, S) == Closure(h, S, Len(h))
(* x reaches a dict that contains itself *)
HasCycle(h, x) ==
  \E a \in Reachable(h, RefsIn(x)) : a \in Reachable(h, Succ(h, {a}))

(* The JSON value a stored value denotes (of a value with no cycle) *)
RECURSIVE Load(_, _)
Load(h, x) ==
  CASE x.t = "list" -> List([i \in 1..Len(x.v) |-> Load(h, x.v[i])])
    [] x.t = "ref" ->
         Dict([i \in 1..Len(h[x.v]) |-> Pair(h[x.v][i].k, Load(h, h[x.v][i].x))])
    [] x.t = "dict" -> Dict([i \in 1..Len(x.v) |-> Pair(x.v[i].k, Load(h, x.v[i].x))])
    [] OTHER -> x

(* v not in (None, "", [], {}) *)
Meaningful(h, v) ==
  ~ \/ v.t = "null"
    \/ v.t \in {"str", "list", "dict"} /\ v.v = <<>>
    \/ v.t = "ref" /\ h[v.v] = <<>>

---------------------------------------------------------------------------
(* Path expressions: None, a dotted string, or a list of alternatives *)
PNone == [t |-> "none"]
PStr(s) == [t |-> "str", v |-> s]
PAlts(ps) == [t |-> "alts", v |-> ps]

RECURSIVE Flat(_)
Flat(xss) == IF xss = <<>> THEN <<>> ELSE Head(xss) \o Flat(Tail(xss))

(* resolve_part without the test of line 64: a null or missing value is kept *)
resolve_part_keeps_null(h, items, part) ==
  LET is_list == EndsWithSpread(part)
      key == IF is_list THEN SubSeq(part, 1, Len(part) - 2) ELSE part
      value(item) == IF item.t = "ref" /\ HasKey(h[item.v], key)
                     THEN GetKey(h[item.v], key) ELSE Null
      next(item) == IF is_list
                    THEN (IF value(item).t = "list" THEN value(item).v ELSE <<>>)
                    ELSE <<value(item)>>
  IN Flat([i \in 1..Len(items) |-> next(items[i])])

(* one iteration of the loop over parts: lines 52-66 *)
resolve_part(h, items, part) ==
  LET is_list == EndsWithSpread(part)
      key == IF is_list THEN SubSeq(part, 1, Len(part) - 2) ELSE part
      value(item) == IF item.t = "ref" /\ HasKey(h[item.v], key)
                     THEN GetKey(h[item.v], key) ELSE Null
      next(item) == IF is_list
                    THEN (IF value(item).t = "list" THEN value(item).v ELSE <<>>)
                    ELSE (IF value(item) # Null THEN <<value(item)>> ELSE <<>>)
  IN Flat([i \in 1..Len(items) |-> next(items[i])])

RECURSIVE resolve_parts(_, _, _)
resolve_parts(h, items, parts) ==
  IF parts = <<>> THEN items
  ELSE resolve_parts(h, resolve_part(h, items, Head(parts)), Tail(parts))

RECURSIVE resolve_path(_, _, _), resolve_alts(_, _, _), resolve_alts_last(_, _, _)
resolve_path(h, o, p) ==
  CASE p.t = "none" -> <<>>
    [] p.t = "alts" -> resolve_alts(h, o, p.v)
    [] OTHER -> resolve_parts(h, <<o>>, Split(p.v, "."))
(* resolve_alts falling back to what the last candidate resolved to *)
resolve_alts_last(h, o, cands) ==
  IF cands = <<>> THEN <<>>
  ELSE LET tried(vals) ==
             IF Len(cands) = 1 \/ \E i \in 1..Len(vals) : Meaningful(h, vals[i])
             THEN vals
             ELSE resolve_alts_last(h, o, Tail(cands))
       IN tried(resolve_path(h, o, Head(cands)))
resolve_alts(h, o, cands) ==
  IF cands = <<>> THEN <<>>
  ELSE LET tried(vals) ==
             IF \E i \in 1..Len(vals) : Meaningful(h, vals[i])
             THEN vals
             ELSE resolve_alts(h, o, Tail(cands))
       IN tried(resolve_path(h, o, Head(cands)))

---------------------------------------------------------------------------
(* Text repair.  Characters of the model: ASCII "a" "b" "." "[" "]" "nl",  *)
(* the Latin-1 characters xC3 xA9 xE9, and u2028 u2029 u9A69, which have   *)
(* no Latin-1 encoding.                                                    *)
Latin1 == {"a", "b", ".", "[", "]", "nl", "xC3", "xA9", "xE9"}
Ascii == {"a", "b", ".", "[", "]", "nl"}
Chars == Latin1 \cup {"u2028", "u2029", "u9A69"}

(* bytes.decode("utf-8") over the bytes the model's characters encode to:  *)
(* <<TRUE, text>>, or <<FALSE, _>> where the decoder raises.               *)
RECURSIVE Utf8Decode(_)
Utf8Decode(bs) ==
  IF bs = <<>> THEN <<TRUE, <<>>>>
  ELSE LET rest(n, c) == LET made(r) == <<r[1], <<c>> \o r[2]>>
                         IN made(Utf8Decode(SubSeq(bs, n + 1, Len(bs))))
       IN CASE bs[1] \in Ascii -> rest(1, bs[1])
            [] bs[1] = "xC3" /\ Len(bs) >= 2 /\ bs[2] = "xA9" -> rest(2, "xE9")
            [] bs[1] = "xE9" /\ Len(bs) >= 3 /\ bs[2] = "xA9" /\ bs[3] = "xA9" ->
                 rest(3, "u9A69")
            [] OTHER -> <<FALSE, <<>>>>

(* fix_string on the characters of a str *)
fix_string(s) ==
  LET replaced(decoded) ==
        [i \in 1..Len(decoded) |->
           IF decoded[i] \in {"u2028", "u2029"} THEN "nl" ELSE decoded[i]]
      utf8(r) == IF r[1] THEN r[2] ELSE s
  IN replaced(IF \A i \in 1..Len(s) : s[i] \in Latin1 THEN utf8(Utf8Decode(s)) ELSE s)

(* Outcomes of a computation: a value (err = "") or the exception raised *)
Ok(x) == [err |-> "", x |-> x]
Raise(e) == [err |-> e, x |-> Null]

(* fix_string(v) as a transform calls it: a value that is no str has no    *)
(* replace method, so line 26 raises AttributeError.                       *)
call_fix_string(v) ==
  IF v.t = "str" THEN Ok(Str(fix_string(v.v))) ELSE Raise("AttributeError")

(* Transform expressions: None, a name, or a list of names *)
TNone == [t |-> "none"]
TName(n) == [t |-> "name", v |-> n]
TNames(ns) == [t |-> "names", v |-> ns]

(* the callables among the module's globals *)
GlobalCallables ==
  {"to_utc", "fix_string", "fix_mojibake", "resolve_path", "get_transform",
   "apply_transforms", "set_nested", "extract_field", "process_each",
   "process_item", "collapse_single_branches", "flatten_dicts",
   "process_posts", "main", "datetime", "timezone", "Path"}

(* get_transform: the name of the function found, or the ValueError *)
get_transform(name) ==
  IF name = "decode" THEN Ok("fix_string")
  ELSE IF name \in GlobalCallables THEN Ok(name)
  ELSE Raise("ValueError")

(* func(v); the model applies fix_string only *)
call_transform(func, v) ==
  IF func = "fix_string" THEN call_fix_string(v) ELSE Raise("Unmodelled")

(* [func(v) for v in current] *)
RECURSIVE map_transform(_, _)
map_transform(func, current) ==
  IF current = <<>> THEN Ok(<<>>)
  ELSE LET rest(a) ==
             IF a.err # "" THEN Raise(a.err)
             ELSE LET made(b) == IF b.err # "" THEN Raise(b.err) ELSE Ok(<<a.x>> \o b.x)
                  IN made(map_transform(func, Tail(current)))
       IN rest(call_transform(func, Head(current)))

RECURSIVE apply_steps(_, _)
apply_steps(current, steps) ==
  IF steps = <<>> THEN Ok(current)
  ELSE LET func == get_transform(Head(steps))
           mapped(r) == IF r.err # "" THEN Raise(r.err) ELSE apply_steps(r.x, Tail(steps))
       IN IF func.err # "" THEN Raise(func.err)
          ELSE mapped(map_transform(func.x, current))

apply_transforms(vals, transform) ==
  CASE transform.t = "none" -> Ok(vals)
    [] transform.t = "names" -> apply_steps(vals, transform.v)
    [] OTHER -> apply_steps(vals, <<transform.v>>)

---------------------------------------------------------------------------
(* Field specs.  each = NoEach when the spec has no "each" key.            *)
NoEach == [cases |-> <<>>, present |-> FALSE]
Each(cases) == [cases |-> cases, present |-> TRUE]
FieldSpec(p, tr, first, cs) ==
  [path |-> p, transform |-> tr, first |-> first, collapse_single |-> cs,
   each |-> NoEach]
EachSpec(p, cases) ==
  [path |-> p, transform |-> TNone, first |-> FALSE, collapse_single |-> TRUE,
   each |-> Each(cases)]
Case(when, emit) == [when |-> when, emit |-> emit]

FirstMeaningful(h, vals) ==
  IF \E i \in 1..Len(vals) : Meaningful(h, vals[i])
  THEN vals[CHOOSE i \in 1..Len(vals) :
              Meaningful(h, vals[i]) /\ \A j \in 1..(i-1) : ~Meaningful(h, vals[j])]
  ELSE Str(<<>>)

extract_field(h, o, spec) ==
  LET transformed(r) ==
        IF r.err # "" THEN Raise(r.err)
        ELSE IF spec.first THEN Ok(FirstMeaningful(h, r.x))
        ELSE IF spec.collapse_single /\ Len(r.x) = 1 THEN Ok(r.x[1])
        ELSE Ok(List(r.x))
  IN transformed(apply_transforms(resolve_path(h, o, spec.path), spec.transform))

(* first_of_list leaving the value as extract_field returned it *)
first_of_list_kept(value, spec) == value

(* if isinstance(value, list) and spec.get("first"): value[0] or "" *)
first_of_list(value, spec) ==
  IF value.t = "list" /\ spec.first
  THEN (IF value.v # <<>> THEN value.v[1] ELSE Str(<<>>))
  ELSE value

(* set_nested(obj, dotted_key, value), obj the dict at address a *)
RECURSIVE set_nested_parts(_, _, _, _)
set_nested_parts(h, cur, parts, value) ==
  IF Len(parts) = 1
  THEN [h EXCEPT ![cur] = PutKey(@, parts[1], value)]
  ELSE LET part == Head(parts)
       IN IF ~HasKey(h[cur], part) \/ GetKey(h[cur], part).t # "ref"
          THEN LET fresh == Len(h) + 1
                   h1 == Append([h EXCEPT ![cur] = PutKey(@, part, Ref(fresh))], <<>>)
               IN set_nested_parts(h1, fresh, Tail(parts), value)
          ELSE set_nested_parts(h, GetKey(h[cur], part).v, Tail(parts), value)

set_nested(h, a, dotted_key, value) ==
  set_nested_parts(h, a, Split(dotted_key, "."), value)

---------------------------------------------------------------------------
(* Outcomes that carry the object store *)
OkH(h, x) == [err |-> "", h |-> h, x |-> x]
RaiseH(h, e) == [err |-> e, h |-> h, x |-> Null]

(* the loop over emit_spec.items(): lines 129-133 *)
RECURSIVE emit_loop(_, _, _, _)
emit_loop(h, o, emitted, pairs) ==
  IF pairs = <<>> THEN OkH(h, Null)
  ELSE LET spec == Head(pairs).x
           extracted(r) ==
             IF r.err # "" THEN RaiseH(h, r.err)
             ELSE emit_loop(set_nested(h, emitted, Head(pairs).k, first_of_list(r.x, spec)),
                            o, emitted, Tail(pairs))
       IN extracted(extract_field(h, o, spec))

(* the loop over cases: lines 123-135 *)
RECURSIVE cases_loop(_, _, _, _)
cases_loop(h, o, cases, output) ==
  IF cases = <<>> THEN OkH(h, output)
  ELSE LET case == Head(cases)
           emitted == Len(h) + 1
           built(r) ==
             IF r.err # "" THEN r
             ELSE cases_loop(r.h, o, Tail(cases),
                             IF r.h[emitted] # <<>>
                             THEN Append(output, Ref(emitted)) ELSE output)
           guarded(when_values) ==
             IF ~ \E i \in 1..Len(when_values) : Meaningful(h, when_values[i])
             THEN cases_loop(h, o, Tail(cases), output)
             ELSE built(emit_loop(Append(h, <<>>), o, emitted, case.emit))
       IN guarded(resolve_path(h, o, case.when))

process_each(h, o, each_spec) == cases_loop(h, o, each_spec.cases, <<>>)

(* the loop over the entries of an "each" field: lines 145-147 *)
RECURSIVE entries_loop(_, _, _, _)
entries_loop(h, entries, each_spec, collected) ==
  IF entries = <<>> THEN OkH(h, collected)
  ELSE IF Head(entries).t # "ref"
  THEN entries_loop(h, Tail(entries), each_spec, collected)
  ELSE LET dispatched(r) ==
             IF r.err # "" THEN r
             ELSE entries_loop(r.h, Tail(entries), each_spec, collected \o r.x)
       IN dispatched(process_each(h, Head(entries), each_spec))

(* fix_mojibake of a value with no cycle: a new structure *)
RECURSIVE fix_mojibake(_, _)
fix_mojibake(h, x) ==
  CASE x.t = "str" -> Str(fix_string(x.v))
    [] x.t = "list" -> List([i \in 1..Len(x.v) |-> fix_mojibake(h, x.v[i])])
    [] x.t = "ref" ->
         Dict([i \in 1..Len(h[x.v]) |->
                 Pair(h[x.v][i].k, fix_mojibake(h, h[x.v][i].x))])
    [] x.t = "dict" ->
         Dict([i \in 1..Len(x.v) |-> Pair(x.v[i].k, fix_mojibake(h, x.v[i].x))])
    [] OTHER -> x

(* the loop over mapping["fields"]: lines 141-153 *)
RECURSIVE fields_loop(_, _, _, _)
fields_loop(h, item, fields, result) ==
  IF fields = <<>> THEN OkH(h, Dict(result))
  ELSE LET field == Head(fields).k
           spec == Head(fields).x
           collected(r) ==
             IF r.err # "" THEN r
             ELSE fields_loop(r.h, item, Tail(fields), PutKey(result, field, List(r.x)))
           extracted(r) ==
             IF r.err # "" THEN RaiseH(h, r.err)
             ELSE fields_loop(h, item, Tail(fields),
                              PutKey(result, field, first_of_list(r.x, spec)))
       IN IF spec.each.present
          THEN collected(entries_loop(h, resolve_path(h, item, spec.path), spec.each, <<>>))
          ELSE extracted(extract_field(h, item, spec))

(* process_item(item, mapping), item a dict of the store h.  A record that *)
(* came to contain itself makes fix_mojibake recurse until RecursionError. *)
process_item(h, item, m) ==
  LET repaired(r) ==
        IF r.err # "" THEN r
        ELSE IF HasCycle(r.h, r.x) THEN RaiseH(r.h, "RecursionError")
        ELSE OkH(r.h, fix_mojibake(r.h, r.x))
  IN repaired(fields_loop(h, item, m.fields, <<>>))

---------------------------------------------------------------------------
(* Post-processors, on JSON values *)
RECURSIVE collapse_single_branches(_), collapse_outer_only(_)
(* collapse_single_branches returning obj[0] as it is *)
collapse_outer_only(x) ==
  CASE x.t = "list" ->
         IF Len(x.v) = 1 THEN x.v[1]
         ELSE List([i \in 1..Len(x.v) |-> collapse_single_branches(x.v[i])])
    [] x.t = "dict" ->
         Dict([i \in 1..Len(x.v) |-> Pair(x.v[i].k, collapse_single_branches(x.v[i].x))])
    [] OTHER -> x

collapse_single_branches(x) ==
  CASE x.t = "list" ->
         IF Len(x.v) = 1 THEN collapse_single_branches(x.v[1])
         ELSE List([i \in 1..Len(x.v) |-> collapse_single_branches(x.v[i])])
    [] x.t = "dict" ->
         Dict([i \in 1..Len(x.v) |-> Pair(x.v[i].k, collapse_single_branches(x.v[i].x))])
    [] OTHER -> x

(* dict.update *)
RECURSIVE Update(_, _)
Update(ps, qs) ==
  IF qs = <<>> THEN ps ELSE Update(PutKey(ps, Head(qs).k, Head(qs).x), Tail(qs))

RECURSIVE flatten_dicts(_, _), flatten_pairs(_, _, _), flatten_pairs_no_prefix(_, _, _)
flatten_dicts(x, prefix) ==
  CASE x.t = "list" -> List([i \in 1..Len(x.v) |-> flatten_dicts(x.v[i], <<>>)])
    [] x.t = "dict" -> Dict(flatten_pairs(x.v, prefix, <<>>))
    [] OTHER -> x
(* flatten_pairs with dotted_key = key: the prefix is dropped *)
flatten_pairs_no_prefix(ps, prefix, flattened) ==
  IF ps = <<>> THEN flattened
  ELSE LET key == Head(ps).k
           value == Head(ps).x
           dotted_key == key
       IN flatten_pairs(Tail(ps), prefix,
            CASE value.t = "dict" -> Update(flattened, flatten_dicts(value, dotted_key).v)
              [] value.t = "list" ->
                   PutKey(flattened, dotted_key,
                          List([i \in 1..Len(value.v) |-> flatten_dicts(value.v[i], <<>>)]))
              [] OTHER -> PutKey(flattened, dotted_key, value))
flatten_pairs(ps, prefix, flattened) ==
  IF ps = <<>> THEN flattened
  ELSE LET key == Head(ps).k
           value == Head(ps).x
           dotted_key == IF prefix # <<>> THEN prefix \o <<".">> \o key ELSE key
       IN flatten_pairs(Tail(ps), prefix,
            CASE value.t = "dict" -> Update(flattened, flatten_dicts(value, dotted_key).v)
              [] value.t = "list" ->
                   PutKey(flattened, dotted_key,
                          List([i \in 1..Len(value.v) |-> flatten_dicts(value.v[i], <<>>)]))
              [] OTHER -> PutKey(flattened, dotted_key, value))

(* process_posts: each dict of data is loaded into a store of its own *)
RECURSIVE process_posts(_, _)
process_posts(d, m) ==
  IF d = <<>> THEN Ok(<<>>)
  ELSE IF Head(d).t # "dict" THEN process_posts(Tail(d), m)
  ELSE LET appended(a) ==
             IF a.err # "" THEN Raise(a.err)
             ELSE LET rest(b) == IF b.err # "" THEN b ELSE Ok(<<a.x>> \o b.x)
                  IN rest(process_posts(Tail(d), m))
           loaded(st) == appended(process_item(st.h, st.x, m))
       IN loaded(Store(<<>>, Head(d)))

---------------------------------------------------------------------------
(* Python's == and < on JSON values *)
RECURSIVE PyEq(_, _)
PyEq(a, b) ==
  IF a.t # b.t THEN FALSE
  ELSE CASE a.t = "list" ->
              Len(a.v) = Len(b.v) /\ \A i \in 1..Len(a.v) : PyEq(a.v[i], b.v[i])
         [] a.t = "dict" ->
              Keys(a.v) = Keys(b.v)
              /\ \A k \in Keys(a.v) : PyEq(GetKey(a.v, k), GetKey(b.v, k))
         [] OTHER -> a = b

(* the characters in code point order *)
CodeOrder ==
  <<"nl", ".", "[", "]", "a", "b", "xA9", "xC3", "xE9", "u2028", "u2029", "u9A69">>
Rank(c) == CHOOSE i \in 1..Len(CodeOrder) : CodeOrder[i] = c

Min(m, n) == IF m < n THEN m ELSE n

(* a < b for values that are not equal: "lt", "ge", or "err" (TypeError) *)
RECURSIVE PyLT(_, _)
PyLT(a, b) ==
  CASE a.t = "num" /\ b.t = "num" -> IF a.v < b.v THEN "lt" ELSE "ge"
    [] a.t = "str" /\ b.t = "str" ->
         LET D == {i \in 1..Min(Len(a.v), Len(b.v)) : a.v[i] # b.v[i]}
         IN IF D = {} THEN (IF Len(a.v) < Len(b.v) THEN "lt" ELSE "ge")
            ELSE LET i == CHOOSE n \in D : \A j \in D : n <= j
                 IN IF Rank(a.v[i]) < Rank(b.v[i]) THEN "lt" ELSE "ge"
    [] a.t = "list" /\ b.t = "list" ->
         LET D == {i \in 1..Min(Len(a.v), Len(b.v)) : ~PyEq(a.v[i], b.v[i])}
         IN IF D = {} THEN (IF Len(a.v) < Len(b.v) THEN "lt" ELSE "ge")
            ELSE LET i == CHOOSE n \in D : \A j \in D : n <= j
                 IN PyLT(a.v[i], b.v[i])
    [] OTHER -> "err"

(* item.get(sort_key) *)
dict_get(rec, k) == IF HasKey(rec.v, k) THEN GetKey(rec.v, k) ELSE Null

(* key_lt with the key (item.get(k) is not None, item.get(k)) *)
key_lt_none_first(a, b, k) ==
  LET va == dict_get(a, k)
      vb == dict_get(b, k)
  IN IF (va = Null) # (vb = Null) THEN (IF va = Null THEN "lt" ELSE "ge")
     ELSE IF PyEq(va, vb) THEN "ge"
     ELSE PyLT(va, vb)

(* key(a) < key(b) for key = (item.get(k) is None, item.get(k)): tuples    *)
(* compare at their first unequal component.                               *)
key_lt(a, b, k) ==
  LET va == dict_get(a, k)
      vb == dict_get(b, k)
  IN IF (va = Null) # (vb = Null) THEN (IF vb = Null THEN "lt" ELSE "ge")
     ELSE IF PyEq(va, vb) THEN "ge"
     ELSE PyLT(va, vb)

(* a goes before b *)
sorts_before(a, b, k, reverse) ==
  IF reverse THEN key_lt(b, a, k) = "lt" ELSE key_lt(a, b, k) = "lt"

RECURSIVE insert_stable(_, _, _, _)
insert_stable(x, sorted, k, reverse) ==
  IF sorted = <<>> THEN <<x>>
  ELSE IF sorts_before(x, Head(sorted), k, reverse) THEN <<x>> \o sorted
  ELSE <<Head(sorted)>> \o insert_stable(x, Tail(sorted), k, reverse)

RECURSIVE stable_sort(_, _, _, _)
stable_sort(done, rest, k, reverse) ==
  IF rest = <<>> THEN done
  ELSE stable_sort(insert_stable(Head(rest), done, k, reverse), Tail(rest), k, reverse)

(* list.sort(key=..., reverse=...): a stable sort, ascending or descending *)
(* by key; a comparison of two keys that raises TypeError ends it.  Among  *)
(* JSON values a < b raises for both orders of a pair or for neither, and  *)
(* no value lies between two that do not compare, so the sort meets every  *)
(* such pair that the list holds.                                          *)
list_sort(recs, k, reverse) ==
  IF \E i, j \in 1..Len(recs) : i # j /\ key_lt(recs[i], recs[j], k) = "err"
  THEN Raise("TypeError")
  ELSE Ok(stable_sort(<<>>, recs, k, reverse))

---------------------------------------------------------------------------
(* Inputs *)
kA == <<"a">>
kB == <<"b">>
kAB == <<"a", ".", "b">>
Mojibake == <<"xC3", "xA9">>

Scalars ==
  {Null, Str(<<>>), Str(kA), Str(Mojibake)} \cup {Num(n) : n \in 0..MaxNum}
Leaves == Scalars \cup {List(<<>>), Dict(<<>>)}
SeqsOf(S, n) == UNION {[1..m -> S] : m \in 0..n}

Idle == Null

(* resolve_path: values and paths *)
ListElems == {Null, Str(<<>>), Num(0), Dict(<<Pair(kB, Num(0))>>)}
Inner ==
  Leaves
  \cup {Dict(<<Pair(k, x)>>) : k \in {kA, kB}, x \in Leaves}
  \cup {List(xs) : xs \in SeqsOf(ListElems, MaxLen)}
ResolveObjs ==
  Inner
  \cup {Dict(<<Pair(kA, x)>>) : x \in Inner}
  \cup {Dict(<<Pair(kA, x), Pair(kB, y)>>) : x \in Inner, y \in {Null, Str(<<>>), Num(0)}}
PlainPaths == {<<>>, kA, kB, kAB, <<"a", ".", "a">>}
SpreadPaths == {<<"a", "[", "]">>, <<"a", "[", "]", ".", "b">>}
ResolvePaths ==
  {PStr(p) : p \in PlainPaths \cup SpreadPaths}
  \cup {PAlts(<<PStr(p1), PStr(p2)>>) : p1, p2 \in {kA, kB, kAB, <<"a", "[", "]">>}}

LoadAll(h, xs) == [i \in 1..Len(xs) |-> Load(h, xs[i])]

(* resolve_path(obj, path) on a parsed document *)
InitResolve ==
  /\ pc = "resolve"
  /\ obj \in ResolveObjs
  /\ path \in ResolvePaths
  /\ values = <<>>
  /\ mapping = Idle /\ data = Idle /\ args = Idle /\ processed = Idle
  /\ heap = Idle /\ exc = ""

Resolve ==
  /\ pc = "resolve"
  /\ LET resolved(st) == LoadAll(st.h, resolve_path(st.h, st.x, path))
     IN values' = resolved(Store(<<>>, obj))
  /\ pc' = "resolved"
  /\ UNCHANGED <<obj, path, mapping, data, args, processed, heap, exc>>

NextResolve == Resolve
SpecResolve == InitResolve /\ [][NextResolve]_vars

(* trees only: some value is not in (None, "", [], {}) *)
AnyMeaningful(vals) == \E i \in 1..Len(vals) : Meaningful(<<>>, vals[i])

ResolveOf(o, p) ==
  LET resolved(st) == LoadAll(st.h, resolve_path(st.h, st.x, p))
  IN resolved(Store(<<>>, o))

IsTwoAlts == path.t = "alts" /\ Len(path.v) = 2

(* C3 as stated: resolve(v, [p1, p2]) is resolve(v, p1) when that holds a  *)
(* meaningful value, and otherwise resolve(v, p2), whatever that is.       *)
C3_FallsBackToSecond ==
  (pc = "resolved" /\ IsTwoAlts) =>
    values = IF AnyMeaningful(ResolveOf(obj, path.v[1]))
             THEN ResolveOf(obj, path.v[1])
             ELSE ResolveOf(obj, path.v[2])

(* C3 amended: resolve(v, [p1, p2]) is resolve(v, p1) when that holds a    *)
(* meaningful value; otherwise resolve(v, p2) when that holds a meaningful *)
(* value; otherwise the empty sequence.                                    *)
C3_FirstMeaningfulAlternative ==
  (pc = "resolved" /\ IsTwoAlts) =>
    values = IF AnyMeaningful(ResolveOf(obj, path.v[1]))
             THEN ResolveOf(obj, path.v[1])
             ELSE IF AnyMeaningful(ResolveOf(obj, path.v[2]))
             THEN ResolveOf(obj, path.v[2])
             ELSE <<>>

(* neither alternative is meaningful, the second is not empty: the result is *)
C3_Witness ==
  /\ pc = "resolved" /\ IsTwoAlts
  /\ ~AnyMeaningful(ResolveOf(obj, path.v[1]))
  /\ ResolveOf(obj, path.v[2]) # <<>>
  /\ ~AnyMeaningful(ResolveOf(obj, path.v[2]))
  /\ values = <<>>

(* the value at the end of the keys of parts, followed through mappings *)
RECURSIVE DeepField(_, _)
DeepField(v, parts) ==
  IF parts = <<>> THEN [found |-> TRUE, x |-> v]
  ELSE IF v.t = "dict" /\ HasKey(v.v, Head(parts))
  THEN DeepField(GetKey(v.v, Head(parts)), Tail(parts))
  ELSE [found |-> FALSE, x |-> Null]

NoSpread(p) ==
  p.t = "str" /\ \A i \in 1..Len(Split(p.v, ".")) : ~EndsWithSpread(Split(p.v, ".")[i])

(* C9 as stated: for a path with no [] segment the result is the one value *)
(* reached key by key when every key is present, and is empty otherwise.   *)
C9_DeepFieldWhenPresent ==
  (pc = "resolved" /\ NoSpread(path)) =>
    LET d == DeepField(obj, Split(path.v, "."))
    IN Len(values) <= 1 /\ values = IF d.found THEN <<d.x>> ELSE <<>>

(* C9 amended: the result is the one value reached key by key when every   *)
(* key is present and that value is not null, and is empty otherwise.      *)
C9_DeepFieldWhenNotNull ==
  (pc = "resolved" /\ NoSpread(path)) =>
    LET d == DeepField(obj, Split(path.v, "."))
    IN Len(values) <= 1
       /\ values = IF d.found /\ d.x # Null THEN <<d.x>> ELSE <<>>

(* a two-segment path both of whose keys are present *)
C9_Witness ==
  /\ pc = "resolved" /\ NoSpread(path)
  /\ Len(Split(path.v, ".")) = 2
  /\ DeepField(obj, Split(path.v, ".")).found
  /\ values = <<DeepField(obj, Split(path.v, ".")).x>>

---------------------------------------------------------------------------
(* Post-processors: values to collapse, mappings to flatten *)
P0 == {Null, Num(0)}
P1 ==
  P0 \cup {List(xs) : xs \in SeqsOf(P0, MaxLen)}
     \cup {Dict(<<>>)} \cup {Dict(<<Pair(kA, x)>>) : x \in P0}
P2 ==
  P1 \cup {List(xs) : xs \in SeqsOf(P1, MaxLen)}
     \cup {Dict(<<Pair(kA, x)>>) : x \in P1}
P3 == {List(<<x>>) : x \in P2} \cup {Dict(<<Pair(kA, x), Pair(kB, y)>>) : x \in P2, y \in P0}

MapKeys == {<<>>, kA, kB, kAB}
M0 == {Num(n) : n \in 0..MaxNum}
Dicts1(K, S) == {Dict(<<Pair(k, x)>>) : k \in K, x \in S}
Dicts2(K, S, T) ==
  {Dict(<<Pair(k1, x), Pair(k2, y)>>) : <<k1, k2>> \in {kk \in K \X K : kk[1] # kk[2]},
                                        <<x, y>> \in S \X T}
M1 == {Dict(<<>>)} \cup Dicts1(MapKeys, M0) \cup Dicts2(MapKeys, M0, M0)
M2 == Dicts1(MapKeys, M0 \cup M1) \cup Dicts2(MapKeys, M0 \cup M1, M0 \cup {Dict(<<>>)})
M3 == Dicts1({kA}, Dicts1(MapKeys, Dicts1(MapKeys, M0)))
PostObjs == P2 \cup P3 \cup M1 \cup M2 \cup M3

InitPost ==
  /\ pc = "post"
  /\ obj \in PostObjs
  /\ values = Idle /\ processed = Idle
  /\ path = Idle /\ mapping = Idle /\ data = Idle /\ args = Idle
  /\ heap = Idle /\ exc = ""

Collapse ==
  /\ pc = "post"
  /\ processed' = collapse_single_branches(obj)
  /\ pc' = "collapsed"
  /\ UNCHANGED <<obj, path, values, mapping, data, args, heap, exc>>

CollapseAgain ==
  /\ pc = "collapsed"
  /\ values' = collapse_single_branches(processed)
  /\ pc' = "collapsed2"
  /\ UNCHANGED <<obj, path, mapping, data, args, processed, heap, exc>>

Flatten ==
  /\ pc = "post"
  /\ processed' = flatten_dicts(obj, <<>>)
  /\ pc' = "flattened"
  /\ UNCHANGED <<obj, path, values, mapping, data, args, heap, exc>>

(* set_nested(m, key, value) for each pair of a flat mapping, m = {} first *)
RECURSIVE renest(_, _)
renest(h, ps) ==
  IF ps = <<>> THEN h ELSE renest(set_nested(h, 1, Head(ps).k, Head(ps).x), Tail(ps))

Renest ==
  /\ pc = "flattened"
  /\ processed.t = "dict"
  /\ values' = Load(renest(<< <<>> >>, processed.v), Ref(1))
  /\ pc' = "renested"
  /\ UNCHANGED <<obj, path, mapping, data, args, processed, heap, exc>>

NextPost == Collapse \/ CollapseAgain \/ Flatten \/ Renest
SpecPost == InitPost /\ [][NextPost]_vars

RECURSIVE HasSingleton(_)
HasSingleton(x) ==
  CASE x.t = "list" -> Len(x.v) = 1 \/ \E i \in 1..Len(x.v) : HasSingleton(x.v[i])
    [] x.t = "dict" -> \E i \in 1..Len(x.v) : HasSingleton(x.v[i].x)
    [] OTHER -> FALSE

(* C8: collapsing the result of collapse_single_branches again changes     *)
(* nothing, and that result holds no list of length 1 at any depth.        *)
C8_CollapseIdempotent ==
  /\ pc \in {"collapsed", "collapsed2"} => ~HasSingleton(processed)
  /\ pc = "collapsed2" => values = processed

(* a list of one list of one element was collapsed, twice *)
C8_Witness ==
  /\ pc = "collapsed2"
  /\ obj.t = "list" /\ Len(obj.v) = 1
  /\ obj.v[1].t = "list" /\ Len(obj.v[1].v) = 1
  /\ processed = obj.v[1].v[1]

(* built from mappings and scalars only *)
RECURSIVE MappingOnly(_)
MappingOnly(x) ==
  CASE x.t = "dict" -> \A i \in 1..Len(x.v) : MappingOnly(x.v[i].x)
    [] x.t = "list" -> FALSE
    [] OTHER -> TRUE

(* no key has a dot and every nested mapping has a key *)
RECURSIVE PlainKeyed(_)
PlainKeyed(x) ==
  x.t = "dict" =>
    \A i \in 1..Len(x.v) :
      /\ \A j \in 1..Len(x.v[i].k) : x.v[i].k[j] # "."
      /\ x.v[i].x.t = "dict" => x.v[i].x.v # <<>>
      /\ PlainKeyed(x.v[i].x)

(* the empty key of the top-level mapping, if any, holds no mapping *)
NoEmptyRootKey(x) ==
  \A i \in 1..Len(x.v) : x.v[i].k = <<>> => x.v[i].x.t # "dict"

(* C7 as stated: re-nesting flatten_dicts(m) gives m back, for every m     *)
(* built from mappings and scalars, empty nested mappings included.        *)
C7_RoundTripAnyMapping ==
  (pc = "renested" /\ obj.t = "dict" /\ MappingOnly(obj)) => PyEq(values, obj)

(* C7 amended: re-nesting flatten_dicts(m) gives m back for every m built  *)
(* from mappings and scalars in which every nested mapping is non-empty,   *)
(* no key contains a dot, and the top-level key "" holds no mapping.       *)
C7_RoundTripPlainKeys ==
  (/\ pc = "renested" /\ obj.t = "dict" /\ MappingOnly(obj)
   /\ PlainKeyed(obj) /\ NoEmptyRootKey(obj))
    => PyEq(values, obj)

(* a mapping three levels deep went through flatten_dicts and back *)
C7_Witness ==
  /\ pc = "renested" /\ obj.t = "dict" /\ MappingOnly(obj) /\ PlainKeyed(obj)
  /\ \E i \in 1..Len(obj.v) :
       /\ obj.v[i].x.t = "dict"
       /\ \E j \in 1..Len(obj.v[i].x.v) : obj.v[i].x.v[j].x.t = "dict"
  /\ \E i \in 1..Len(processed.v) : Len(Split(processed.v[i].k, ".")) = 3

---------------------------------------------------------------------------
(* process_item: records and mapping specifications *)
pSpreadA == <<"a", "[", "]">>
Entries ==
  LET U == {Num(0), Str(Mojibake), Dict(<<>>), Dict(<<Pair(kB, Num(0))>>),
            List(<<Num(0), Num(1)>>)}
  IN {Dict(<<Pair(kA, u)>>) : u \in U}
     \cup {Dict(<<Pair(kA, u), Pair(kB, w)>>) : u \in U, w \in {Num(1), Str(<<>>)}}
ItemElems ==
  {Null, Str(<<>>), Num(0), Str(Mojibake), List(<<Num(0)>>),
   Dict(<<Pair(kA, Dict(<<Pair(kB, Num(0))>>)), Pair(kB, Num(1))>>)}
ItemVals ==
  Leaves \cup Entries \cup {List(xs) : xs \in SeqsOf(ItemElems, MaxLen)}
Items ==
  {Dict(<<Pair(kA, x)>>) : x \in ItemVals}
  \cup {Dict(<<Pair(kA, x), Pair(kB, y)>>) : x \in Leaves, y \in {Str(kA), List(<<Num(0)>>)}}

ItemPaths ==
  {PNone, PStr(kA), PStr(kB), PStr(kAB), PStr(pSpreadA),
   PAlts(<<PStr(kB), PStr(kA)>>)}
PlainSpecs ==
  {FieldSpec(p, tr, f, cs) :
     p \in ItemPaths, tr \in {TNone, TName("decode")}, f \in BOOLEAN, cs \in BOOLEAN}
sA == FieldSpec(PStr(kA), TNone, FALSE, TRUE)
sB == FieldSpec(PStr(kB), TNone, FALSE, TRUE)
sBFirst == FieldSpec(PStr(kB), TNone, TRUE, TRUE)
Emits ==
  {<<>>, <<Pair(kA, sA)>>, <<Pair(kAB, sBFirst)>>,
   <<Pair(kA, sA), Pair(kAB, sB)>>, <<Pair(kAB, sB), Pair(kA, sA)>>,
   <<Pair(kA, sA), Pair(kAB, sA)>>}
EachSpecs ==
  {EachSpec(p, <<Case(w, e)>>) :
     p \in {PStr(kA), PStr(pSpreadA)}, w \in {PStr(kA), PStr(kB)}, e \in Emits}
  \cup {EachSpec(p, <<Case(PStr(kB), <<Pair(kA, sA), Pair(kAB, sB)>>),
                     Case(PStr(kA), <<Pair(kB, sA)>>)>>) :
          p \in {PStr(kA), PStr(pSpreadA)}}
Mapping(fields) == [fields |-> fields]
ItemMappings ==
  {Mapping(<<Pair(f, s)>>) : f \in {kA, kAB}, s \in PlainSpecs \cup EachSpecs}
  \cup {Mapping(<<Pair(kA, e), Pair(kB, s)>>) :
          e \in {EachSpec(PStr(kA), <<Case(PStr(kA), <<Pair(kA, sA), Pair(kAB, sB)>>)>>)},
          s \in {FieldSpec(PStr(kAB), TNone, FALSE, TRUE)}}

InitItem ==
  /\ pc = "item"
  /\ obj \in Items
  /\ mapping \in ItemMappings
  /\ processed = Idle /\ heap = Idle /\ exc = ""
  /\ path = Idle /\ values = Idle /\ data = Idle /\ args = Idle

(* process_item(item, mapping) on a parsed record; heap keeps the store    *)
(* and the record's address as the call left them.                         *)
ProcessItem ==
  /\ pc = "item"
  /\ LET returned(st, r) ==
           /\ processed' = r.x
           /\ exc' = r.err
           /\ heap' = [h |-> r.h, root |-> st.x]
         loaded(st) == returned(st, process_item(st.h, st.x, mapping))
     IN loaded(Store(<<>>, obj))
  /\ pc' = "itemdone"
  /\ UNCHANGED <<obj, path, values, mapping, data, args>>

NextItem == ProcessItem
SpecItem == InitItem /\ [][NextItem]_vars

Returned == pc = "itemdone" /\ exc = ""

(* C1: after process_item returns, the input record and everything nested *)
(* in it is as it was before the call.                                     *)
C1_InputNotMutated ==
  Returned => (~HasCycle(heap.h, heap.root) /\ Load(heap.h, heap.root) = obj)

HasDot(k) == \E i \in 1..Len(k) : k[i] = "."

(* C2: the output record has no top-level key with a dot; a field named    *)
(* "a.b" is found at record["a"]["b"].                                     *)
C2_DottedFieldsNested ==
  Returned =>
    /\ \A i \in 1..Len(processed.v) : ~HasDot(processed.v[i].k)
    /\ \A i \in 1..Len(mapping.fields) :
         HasDot(mapping.fields[i].k) =>
           DeepField(processed, Split(mapping.fields[i].k, ".")).found

(* the one field of the mapping is a plain spec with first and no transform *)
FirstOnly ==
  /\ Len(mapping.fields) = 1
  /\ ~mapping.fields[1].x.each.present
  /\ mapping.fields[1].x.first
  /\ mapping.fields[1].x.transform = TNone

FirstMeaningfulOf(o, p) == FirstMeaningful(<<>>, ResolveOf(o, p))

(* C10 as stated: the field holds, text repair aside, the first meaningful *)
(* value of resolve_path(item, spec.path), also when that is a list, and   *)
(* "" when there is none.                                                  *)
C10_FirstMeaningfulStored ==
  (pc = "itemdone" /\ FirstOnly) =>
    /\ exc = ""
    /\ dict_get(processed, mapping.fields[1].k)
         = fix_mojibake(<<>>, FirstMeaningfulOf(obj, mapping.fields[1].x.path))

(* C10 amended: the field holds, text repair aside, the first meaningful   *)
(* value of resolve_path(item, spec.path), or the first element of that    *)
(* value when it is a list, and "" when there is no meaningful value.      *)
C10_FirstMeaningfulOrItsHead ==
  (pc = "itemdone" /\ FirstOnly) =>
    LET m == FirstMeaningfulOf(obj, mapping.fields[1].x.path)
    IN /\ exc = ""
       /\ dict_get(processed, mapping.fields[1].k)
            = fix_mojibake(<<>>, IF m.t = "list" THEN m.v[1] ELSE m)

(* the first meaningful value is a list, and its first element is stored *)
C10_Witness ==
  /\ pc = "itemdone" /\ FirstOnly
  /\ LET m == FirstMeaningfulOf(obj, mapping.fields[1].x.path)
     IN m.t = "list" /\ Len(m.v) = 2 /\ m.v[1] = Str(Mojibake)
  /\ dict_get(processed, mapping.fields[1].k) = Str(<<"xE9">>)

---------------------------------------------------------------------------
(* main(): the parsed input, the parsed mapping, the arguments *)
PostElems ==
  {Num(0), Dict(<<>>), Dict(<<Pair(kA, Num(0))>>), Dict(<<Pair(kA, Num(1))>>),
   Dict(<<Pair(kA, Str(kA))>>), Dict(<<Pair(kA, Dict(<<Pair(kB, Num(0))>>))>>),
   Dict(<<Pair(kA, List(<<Dict(<<Pair(kA, Num(0))>>)>>))>>),
   Dict(<<Pair(kA, List(<<Null>>))>>)}
Inputs ==
  {List(xs) : xs \in SeqsOf(PostElems, MaxPosts)} \cup {Dict(<<Pair(kA, Num(0))>>)}
Copy(tr) == FieldSpec(PStr(kA), tr, FALSE, TRUE)
MainMappings ==
  {Mapping(<<Pair(kA, Copy(tr))>>) :
     tr \in {TNone, TName("decode"), TName("fix_string"), TName("nope")}}
  \cup {Mapping(<<Pair(kAB, Copy(TNone))>>),
        Mapping(<<Pair(kB, Copy(TNone)), Pair(kA, Copy(TNone))>>),
        Mapping(<<Pair(kA, EachSpec(PStr(pSpreadA),
                                    <<Case(PStr(kA), <<Pair(kA, Copy(TName("nope")))>>)>>))>>),
        Mapping(<<Pair(kA, EachSpec(PStr(pSpreadA),
                                    <<Case(PStr(kA), <<Pair(kAB, Copy(TNone))>>)>>))>>)}
Args ==
  [sort_field : {kA}, sort_order : {"asc", "desc"},
   collapse_single_branches : BOOLEAN, flatten_dicts : BOOLEAN]

Init ==
  /\ pc = "load"
  /\ data \in Inputs
  /\ mapping \in MainMappings
  /\ args \in Args
  /\ processed = <<>> /\ exc = ""
  /\ obj = Idle /\ path = Idle /\ values = Idle /\ heap = Idle

(* lines 245-250 *)
CheckInput ==
  /\ pc = "load"
  /\ IF data.t # "list"
     THEN pc' = "raised" /\ exc' = "SystemExit"
     ELSE pc' = "process" /\ exc' = exc
  /\ UNCHANGED <<obj, path, values, mapping, data, args, processed, heap>>

(* line 265 *)
ProcessPosts ==
  /\ pc = "process"
  /\ LET returned(r) ==
           IF r.err # ""
           THEN pc' = "raised" /\ exc' = r.err /\ processed' = processed
           ELSE pc' = "collapse" /\ exc' = exc /\ processed' = r.x
     IN returned(process_posts(data.v, mapping))
  /\ UNCHANGED <<obj, path, values, mapping, data, args, heap>>

(* lines 266-267 *)
CollapseStep ==
  /\ pc = "collapse"
  /\ processed' = IF args.collapse_single_branches
                  THEN [i \in 1..Len(processed) |-> collapse_single_branches(processed[i])]
                  ELSE processed
  /\ pc' = "flatten"
  /\ UNCHANGED <<obj, path, values, mapping, data, args, heap, exc>>

(* lines 268-269 *)
FlattenStep ==
  /\ pc = "flatten"
  /\ processed' = IF args.flatten_dicts
                  THEN [i \in 1..Len(processed) |-> flatten_dicts(processed[i], <<>>)]
                  ELSE processed
  /\ pc' = "sort"
  /\ UNCHANGED <<obj, path, values, mapping, data, args, heap, exc>>

(* lines 270-275 *)
SortStep ==
  /\ pc = "sort"
  /\ IF args.sort_field # <<>>
     THEN LET returned(r) ==
                IF r.err # ""
                THEN pc' = "raised" /\ exc' = r.err /\ processed' = processed
                ELSE pc' = "write" /\ exc' = exc /\ processed' = r.x
          IN returned(list_sort(processed, args.sort_field, args.sort_order = "desc"))
     ELSE pc' = "write" /\ exc' = exc /\ processed' = processed
  /\ UNCHANGED <<obj, path, values, mapping, data, args, heap>>

(* lines 276-279: the output list is written *)
WriteOutput ==
  /\ pc = "write"
  /\ pc' = "done"
  /\ UNCHANGED <<obj, path, values, mapping, data, args, processed, heap, exc>>

Next ==
  \/ CheckInput
  \/ ProcessPosts
  \/ CollapseStep
  \/ FlattenStep
  \/ SortStep
  \/ WriteOutput

Spec == Init /\ [][Next]_vars

Lacks(rec) == dict_get(rec, args.sort_field) = Null

(* C4 as stated: in the output list every record that lacks the sort field *)
(* (or has it null) comes before every record that has it, asc or desc.    *)
C4_MissingFirst ==
  pc = "done" =>
    \A i, j \in 1..Len(processed) :
      (Lacks(processed[i]) /\ ~Lacks(processed[j])) => i < j

(* C4 amended: in the output list every record that lacks the sort field   *)
(* (or has it null) comes after every record that has it when the order is *)
(* asc, and before every record that has it when the order is desc.        *)
C4_MissingLastAscFirstDesc ==
  pc = "done" =>
    \A i, j \in 1..Len(processed) :
      (Lacks(processed[i]) /\ ~Lacks(processed[j])) =>
        IF args.sort_order = "asc" THEN j < i ELSE i < j

(* an ascending run moved a record whose field is null behind one with it *)
C4_Witness ==
  /\ pc = "done" /\ args.sort_order = "asc"
  /\ Len(processed) = 2
  /\ processed[1] = Dict(<<Pair(kA, Num(0))>>)
  /\ processed[2] = Dict(<<Pair(kA, Null)>>)
  /\ data.v[1] = Dict(<<Pair(kA, List(<<Null>>))>>)

(* the transform names of a mapping *)
NamesOf(tr) ==
  CASE tr.t = "none" -> {}
    [] tr.t = "names" -> {tr.v[i] : i \in 1..Len(tr.v)}
    [] OTHER -> {tr.v}
EmitNames(emit) == UNION {NamesOf(emit[e].x.transform) : e \in 1..Len(emit)}
SpecNames(spec) ==
  IF spec.each.present
  THEN UNION {EmitNames(spec.each.cases[c].emit) : c \in 1..Len(spec.each.cases)}
  ELSE NamesOf(spec.transform)
MappingNames(m) == UNION {SpecNames(m.fields[i].x) : i \in 1..Len(m.fields)}

NumDicts(xs) == Cardinality({i \in 1..Len(xs) : xs[i].t = "dict"})

(* C5: with a list as input and only transforms that get_transform knows,  *)
(* nothing is raised, and the output list has one record per input dict.   *)
C5_NeverAborts ==
  (data.t = "list" /\ \A n \in MappingNames(mapping) : get_transform(n).err = "") =>
    /\ exc = ""
    /\ pc = "done" => Len(processed) = NumDicts(data.v)

(* C6: with a mapping that names a transform other than the built-in, the  *)
(* run ends in the unknown-transform error and no output list is written.  *)
C6_UnknownTransformFatal ==
  (data.t = "list" /\ MappingNames(mapping) \ {"decode"} # {}) =>
    /\ pc \notin {"write", "done"}
    /\ pc = "raised" => exc = "ValueError"

====
